---- MODULE Spec2Model ----
(***************************************************************************)
(* Model of the Trello plugin for OpenCode.                                *)
(*                                                                         *)
(* The repository holds two variants of the same eight tools:              *)
(*   - src/unnamed/part_000   : every execute() RETURNS its text            *)
(*                              (variant = "returning")                    *)
(*   - src/plugin/trello.ts   : every execute() emits its text through     *)
(*                              context.log.* and returns undefined        *)
(*                              (variant = "logging")                      *)
(*                                                                         *)
(* JavaScript strings are sequences of tokens.  A token is an indivisible  *)
(* run of characters ("k1", "/cards"); the characters URLSearchParams      *)
(* percent-encodes ("," and "&") and the characters of card descriptions   *)
(* are tokens of their own.  Template strings are concatenations (\o).     *)
(* An optional string (string | undefined) is a record [def, s].           *)
(* Glyphs (emoji) of the source are written as ASCII tags such as "[X] ".  *)
(***************************************************************************)
EXTENDS Integers, Sequences, FiniteSets, TLC

VARIABLES variant,   \* which of the two plugin files is loaded
          env,       \* process.env: the four TRELLO_* variables
          inv        \* one record per tool invocation of the host

vars == <<variant, env, inv>>

----------------------------------------------------------------------------
(* Bounds of the model *)

MaxItems == 2        \* longest array the remote service answers with

----------------------------------------------------------------------------
(* JavaScript values *)

Undefined == [def |-> FALSE, s |-> <<>>]
Str(tokens) == [def |-> TRUE, s |-> tokens]

\* !v is false: a defined, non-empty string
Truthy(v) == v.def /\ v.s # <<>>

\* `${v}` : undefined interpolates as the word undefined
Interp(v) == IF v.def THEN v.s ELSE <<"undefined">>

\* a || b
OrElse(a, b) == IF Truthy(a) THEN a ELSE b

Min(a, b) == IF a < b THEN a ELSE b

\* haystack.includes(needle), on token sequences
Contains(haystack, needle) ==
  \E i \in 0..(Len(haystack) - Len(needle)) :
     \A j \in 1..Len(needle) : haystack[i + j] = needle[j]

RECURSIVE Join(_, _)
\* parts.join(sep): parts is a sequence of token sequences
Join(parts, sep) ==
  IF parts = <<>> THEN <<>>
  ELSE IF Len(parts) = 1 THEN parts[1]
  ELSE parts[1] \o sep \o Join(Tail(parts), sep)

\* String(n) for the numbers that reach a template string
NumStr(n) == ToString(n)

----------------------------------------------------------------------------
(* Outcome of running a handler up to its next suspension point:           *)
(*   "return" : execute() completed; ret is the value handed back          *)
(*   "throw"  : an exception is propagating; msg is error.message          *)
(*   "await"  : suspended in fetch(req)                                    *)
(* logs are the context.log.* calls made on the way.                       *)

NoReq == [method |-> <<>>, path |-> <<>>, query |-> <<>>, body |-> <<>>,
          hasBody |-> FALSE, init |-> <<>>]

NoConfig == [apiKey |-> <<>>, apiToken |-> <<>>, boardId |-> <<>>,
             defaultListId |-> Undefined]

\* the handler's locals that are alive across its await
Locals(config, targetListId) ==
  [config |-> config, targetListId |-> targetListId]
NoLocals == Locals(NoConfig, <<>>)

Return(ret, logs) ==
  [kind |-> "return", ret |-> ret, logs |-> logs, msg |-> <<>>, req |-> NoReq,
   locals |-> NoLocals]
Throw(msg) ==
  [kind |-> "throw", ret |-> Undefined, logs |-> <<>>, msg |-> msg,
   req |-> NoReq, locals |-> NoLocals]
Await(req, locals) ==
  [kind |-> "await", ret |-> Undefined, logs |-> <<>>, msg |-> <<>>,
   req |-> req, locals |-> locals]

Log(level, text) == [level |-> level, text |-> text]

----------------------------------------------------------------------------
(* JSON values submitted in a request body.  t is the JSON type; s holds   *)
(* the tokens of a string or the word of a boolean; items the elements of  *)
(* an array of strings.                                                    *)

JStr(tokens) == [t |-> "string", s |-> tokens, items |-> <<>>]
JBool(b) == [t |-> "boolean", s |-> IF b THEN <<"true">> ELSE <<"false">>,
             items |-> <<>>]
JArr(items) == [t |-> "array", s |-> <<>>, items |-> items]
JUndef == [t |-> "undefined", s |-> <<>>, items |-> <<>>]

\* an optional string as a property value
JOpt(v) == IF v.def THEN JStr(v.s) ELSE JUndef

Prop(name, val) == [name |-> name, val |-> val]

RECURSIVE JSONstringify(_)
\* JSON.stringify(object): properties in insertion order, the properties
\* whose value is undefined left out
JSONstringify(props) ==
  IF props = <<>> THEN <<>>
  ELSE IF Head(props).val.t = "undefined" THEN JSONstringify(Tail(props))
  ELSE <<Head(props)>> \o JSONstringify(Tail(props))

----------------------------------------------------------------------------
(* HELPER FUNCTIONS of src/unnamed/part_000 (the logging variant's copies  *)
(* in src/plugin/trello.ts follow, where they differ)                      *)

EnvNames == {"TRELLO_API_KEY", "TRELLO_API_TOKEN", "TRELLO_BOARD_ID",
             "TRELLO_DEFAULT_LIST_ID"}

ConfigIncomplete ==
  <<"Trello configuration incomplete. Please provide TRELLO_API_KEY, TRELLO_API_TOKEN, and TRELLO_BOARD_ID in your environment.">>

ConfigIncompleteSdk ==
  <<"Trello configuration incomplete. Please set these environment variables:",
    "Run /trello-setup for help.">>

\* mutation of getConfigWith: the default list is required as well
getConfigNeedsDefault(e, message) ==
  LET apiKey == e["TRELLO_API_KEY"]
      apiToken == e["TRELLO_API_TOKEN"]
      boardId == e["TRELLO_BOARD_ID"]
      defaultListId == e["TRELLO_DEFAULT_LIST_ID"]
  IN IF ~Truthy(apiKey) \/ ~Truthy(apiToken) \/ ~Truthy(boardId)
        \/ ~Truthy(defaultListId)
     THEN [ok |-> FALSE, config |-> NoConfig, msg |-> message]
     ELSE [ok |-> TRUE,
           config |-> [apiKey |-> apiKey.s, apiToken |-> apiToken.s,
                       boardId |-> boardId.s, defaultListId |-> defaultListId],
           msg |-> <<>>]

\* mutation of getConfigWith: the board identifier is not required
getConfigNoBoard(e, message) ==
  LET apiKey == e["TRELLO_API_KEY"]
      apiToken == e["TRELLO_API_TOKEN"]
      boardId == e["TRELLO_BOARD_ID"]
      defaultListId == e["TRELLO_DEFAULT_LIST_ID"]
  IN IF ~Truthy(apiKey) \/ ~Truthy(apiToken)
     THEN [ok |-> FALSE, config |-> NoConfig, msg |-> message]
     ELSE [ok |-> TRUE,
           config |-> [apiKey |-> apiKey.s, apiToken |-> apiToken.s,
                       boardId |-> Interp(boardId),
                       defaultListId |-> defaultListId],
           msg |-> <<>>]

\* getConfig: [ok, config, msg]; ok = FALSE is the thrown Error(msg)
getConfigWith(e, message) ==
  LET apiKey == e["TRELLO_API_KEY"]
      apiToken == e["TRELLO_API_TOKEN"]
      boardId == e["TRELLO_BOARD_ID"]
      defaultListId == e["TRELLO_DEFAULT_LIST_ID"]
  IN IF ~Truthy(apiKey) \/ ~Truthy(apiToken) \/ ~Truthy(boardId)
     THEN [ok |-> FALSE, config |-> NoConfig, msg |-> message]
     ELSE [ok |-> TRUE,
           config |-> [apiKey |-> apiKey.s, apiToken |-> apiToken.s,
                       boardId |-> boardId.s, defaultListId |-> defaultListId],
           msg |-> <<>>]

getConfig(e) == getConfigWith(e, ConfigIncomplete)

getConfigSdk(e) == getConfigWith(e, ConfigIncompleteSdk)

\* encodeURIComponent as URLSearchParams applies it, token by token
EncodeToken(tok) ==
  CASE tok = "," -> "%2C"
    [] tok = "&" -> "%26"
    [] tok = "=" -> "%3D"
    [] OTHER -> tok

DecodeToken(tok) ==
  CASE tok = "%2C" -> ","
    [] tok = "%26" -> "&"
    [] tok = "%3D" -> "="
    [] OTHER -> tok

Encode(tokens) == [i \in 1..Len(tokens) |-> EncodeToken(tokens[i])]
Decode(tokens) == [i \in 1..Len(tokens) |-> DecodeToken(tokens[i])]

Param(name, value) == [name |-> name, value |-> value]

HasParam(params, name) == \E i \in 1..Len(params) : params[i].name = name
ParamOf(params, name) ==
  params[CHOOSE i \in 1..Len(params) : params[i].name = name].value

RECURSIVE Spread(_, _)
\* { ...obj, ...more }: a later property of the same name overrides the
\* value and keeps the place of the first
Spread(obj, more) ==
  IF more = <<>> THEN obj
  ELSE LET p == Head(more)
           next == IF HasParam(obj, p.name)
                   THEN [i \in 1..Len(obj) |->
                           IF obj[i].name = p.name THEN p ELSE obj[i]]
                   ELSE Append(obj, p)
       IN Spread(next, Tail(more))

\* new URLSearchParams(obj).toString(), kept as its name=value pairs
URLSearchParams(obj) ==
  [i \in 1..Len(obj) |-> Param(obj[i].name, Encode(obj[i].value))]

BaseUrl == <<"https://api.trello.com/1">>

\* mutation of AuthParams: the token is left out
AuthParamsNoToken(config) == <<Param("key", config.apiKey)>>

AuthParams(config) ==
  <<Param("key", config.apiKey), Param("token", config.apiToken)>>

buildUrl(config, path, params) ==
  [base |-> BaseUrl, path |-> path,
   query |-> URLSearchParams(Spread(AuthParams(config), params))]

\* plugin/trello.ts holds the same buildUrl
buildUrlSdk(config, path, params) ==
  [base |-> BaseUrl, path |-> path,
   query |-> URLSearchParams(Spread(AuthParams(config), params))]

\* RequestInit as the tools build it
Options(method, hasBody, body, extra) ==
  [method |-> method, hasBody |-> hasBody, body |-> body, extra |-> extra]
NoOptions == Options(Undefined, FALSE, <<>>, <<>>)

\* the fetch(url, {...options, headers}) of trelloFetch, part_000 79-89
FetchCall(url, options) ==
  [method |-> IF options.method.def THEN options.method.s ELSE <<"GET">>,
   path |-> url.path, query |-> url.query,
   body |-> options.body, hasBody |-> options.hasBody,
   init |-> options.extra]

\* part_000: trelloFetch(config, path, options = {}, queryParams = {})
trelloFetch(config, path, options, queryParams) ==
  FetchCall(buildUrl(config, path, queryParams), options)

\* plugin/trello.ts: trelloFetch(config, path, options = {}); the URL is
\* built from config and path alone
trelloFetchSdk(config, path, options) ==
  FetchCall(buildUrlSdk(config, path, <<>>), options)

----------------------------------------------------------------------------
(* What fetch() settles with.  kind = "reject" is a transport failure      *)
(* (the promise rejects with Error(msg)); kind = "http" is a Response with *)
(* its status, its body text, and the value response.json() parses from    *)
(* the body (parses = FALSE: the body is not JSON and json() rejects).     *)

JNull == [t |-> "null", items |-> <<>>]
JArray(items) == [t |-> "array", items |-> items]
JObject(obj) == [t |-> "object", items |-> <<obj>>]

Rejected(msg) ==
  [kind |-> "reject", status |-> 0, text |-> <<>>, parses |-> FALSE,
   json |-> JNull, msg |-> msg]
Responded(status, text, parses, json) ==
  [kind |-> "http", status |-> status, text |-> text, parses |-> parses,
   json |-> json, msg |-> <<>>]

\* Response.ok
ResponseOk(response) == response.status >= 200 /\ response.status <= 299

SyntaxError == <<"Unexpected token in JSON">>

Value(json) == [ok |-> TRUE, json |-> json, msg |-> <<>>]
Thrown(msg) == [ok |-> FALSE, json |-> JNull, msg |-> msg]

\* mutation of ApiError: the body text is dropped
ApiErrorNoBody(response) ==
  <<"Trello API error (", NumStr(response.status), "): ">>

ApiError(response) ==
  <<"Trello API error (", NumStr(response.status), "): ">> \o response.text

\* mutation of trelloFetchSettle: a 2xx body that is not JSON yields null
trelloFetchSettleLenient(response) ==
  IF response.kind = "reject" THEN Thrown(response.msg)
  ELSE IF ~ResponseOk(response) THEN Thrown(ApiError(response))
  ELSE IF ~response.parses THEN Value(JNull)
  ELSE Value(response.json)

\* trelloFetch after the await: part_000 91-96, plugin/trello.ts 95-100
trelloFetchSettle(response) ==
  IF response.kind = "reject" THEN Thrown(response.msg)
  ELSE IF ~ResponseOk(response) THEN Thrown(ApiError(response))
  ELSE IF ~response.parses THEN Thrown(SyntaxError)
  ELSE Value(response.json)

\* a property read on the parsed value: on null it throws a TypeError
TypeErrorNull == <<"Cannot read properties of null">>
TypeErrorMap == <<"map is not a function">>

----------------------------------------------------------------------------
(* Formatters: part_000 99-117, plugin/trello.ts 103-121 (the same code)   *)

DescLimit == 100

\* new Date(due).toLocaleDateString()
LocaleDate(due) == <<"date(">> \o due \o <<")">>

formatLabel(l) == <<"[">> \o l.color \o <<" ">> \o l.name \o <<"]">>

\* mutation of formatCard: the marker is added from 100 characters on
formatCardMarkerAtLimit(card, index) ==
  LET status == IF card.closed THEN <<"[red] Done">>
                ELSE <<"[green] In Progress">>
      labels == IF Len(card.labels) > 0
                THEN Join([i \in 1..Len(card.labels) |->
                             formatLabel(card.labels[i])], <<" ">>)
                ELSE <<>>
      due == IF Truthy(card.due)
             THEN <<" [cal] ">> \o LocaleDate(card.due.s) ELSE <<>>
      desc == IF card.desc # <<>>
              THEN <<"\n   ">>
                   \o SubSeq(card.desc, 1, Min(Len(card.desc), DescLimit))
                   \o (IF Len(card.desc) >= DescLimit THEN <<"...">> ELSE <<>>)
              ELSE <<>>
  IN <<NumStr(index + 1), ". ">> \o status \o <<" ">> \o card.name \o due
     \o labels \o <<"\n   ID: ">> \o card.shortLink \o <<"\n   List: ">>
     \o card.idList \o desc

formatCard(card, index) ==
  LET status == IF card.closed THEN <<"[red] Done">>
                ELSE <<"[green] In Progress">>
      labels == IF Len(card.labels) > 0
                THEN Join([i \in 1..Len(card.labels) |->
                             formatLabel(card.labels[i])], <<" ">>)
                ELSE <<>>
      due == IF Truthy(card.due)
             THEN <<" [cal] ">> \o LocaleDate(card.due.s) ELSE <<>>
      desc == IF card.desc # <<>>
              THEN <<"\n   ">>
                   \o SubSeq(card.desc, 1, Min(Len(card.desc), DescLimit))
                   \o (IF Len(card.desc) > DescLimit THEN <<"...">> ELSE <<>>)
              ELSE <<>>
  IN <<NumStr(index + 1), ". ">> \o status \o <<" ">> \o card.name \o due
     \o labels \o <<"\n   ID: ">> \o card.shortLink \o <<"\n   List: ">>
     \o card.idList \o desc

formatList(list, index) ==
  LET status == IF list.closed THEN <<"[red] Closed">> ELSE <<"[green] Open">>
  IN <<NumStr(index + 1), ". ">> \o status \o <<" ">> \o list.name
     \o <<"\n   ID: ">> \o list.id

formatBoard(board, index) ==
  <<NumStr(index + 1), ". [board] ">> \o board.name \o <<"\n   ID: ">>
  \o board.id \o <<"\n   URL: ">> \o board.url

\* items.map((x, i) => format(x, i)).join('\n\n')
MapJoinCards(items) ==
  Join([i \in 1..Len(items) |-> formatCard(items[i], i - 1)], <<"\n\n">>)
MapJoinLists(items) ==
  Join([i \in 1..Len(items) |-> formatList(items[i], i - 1)], <<"\n\n">>)
MapJoinBoards(items) ==
  Join([i \in 1..Len(items) |-> formatBoard(items[i], i - 1)], <<"\n\n">>)

----------------------------------------------------------------------------
(* Arguments of a tool call: every optional string is [def, s]; closed is  *)
(* an optional boolean [def, b].                                           *)

RECURSIVE SplitComma(_, _)
\* s.split(','): cur is the piece being read
SplitComma(tokens, cur) ==
  IF tokens = <<>> THEN <<cur>>
  ELSE IF Head(tokens) = "," THEN <<cur>> \o SplitComma(Tail(tokens), <<>>)
  ELSE SplitComma(Tail(tokens), Append(cur, Head(tokens)))

RECURSIVE TrimLeft(_)
TrimLeft(tokens) ==
  IF tokens # <<>> /\ Head(tokens) = " " THEN TrimLeft(Tail(tokens))
  ELSE tokens

RECURSIVE TrimRight(_)
TrimRight(tokens) ==
  IF tokens # <<>> /\ tokens[Len(tokens)] = " "
  THEN TrimRight(SubSeq(tokens, 1, Len(tokens) - 1))
  ELSE tokens

\* l.trim()
Trim(tokens) == TrimRight(TrimLeft(tokens))

\* args.labels.split(',').map(l => l.trim())
SplitLabels(tokens) ==
  LET parts == SplitComma(tokens, <<>>)
  IN [i \in 1..Len(parts) |-> Trim(parts[i])]

FieldsCards ==
  <<"name", ",", "desc", ",", "url", ",", "shortLink", ",", "idList", ",",
    "closed", ",", "due", ",", "labels">>
FieldsBoards == <<"name", ",", "url">>
FieldsLists == <<"name", ",", "closed", ",", "pos">>

----------------------------------------------------------------------------
(* The tools of src/unnamed/part_000 (variant "returning").  Each handler  *)
(* is async with one await, the fetch inside trelloFetch: X_start runs it  *)
(* up to the await, X_resume from the settled fetch to its return.  Both   *)
(* halves lie inside the handler's try block.                              *)

\* mutation of CatchReturn: no catch block
CatchNone(prefix, out) == out

\* catch (error) { return `<prefix>${error.message}` }

CatchReturn(prefix, out) ==
  IF out.kind = "throw" THEN Return(Str(prefix \o out.msg), <<>>) ELSE out

trello_list_start(args, e) ==
  CatchReturn(<<"[X] Failed to list cards: ">>,
    LET cfg == getConfig(e)
        config == cfg.config
        listId == args.listId
    IN IF ~cfg.ok THEN Throw(cfg.msg)
       ELSE Await(trelloFetch(config,
                    IF Truthy(listId)
                    THEN <<"/lists/">> \o listId.s \o <<"/cards">>
                    ELSE <<"/boards/">> \o config.boardId \o <<"/cards">>,
                    NoOptions,
                    IF Truthy(listId) THEN <<>>
                    ELSE <<Param("fields", FieldsCards)>>), Locals(config, <<>>)))

trello_list_resume(args, locals, response) ==
  CatchReturn(<<"[X] Failed to list cards: ">>,
    LET r == trelloFetchSettle(response)
        cards == r.json
    IN IF ~r.ok THEN Throw(r.msg)
       ELSE IF cards.t = "null" THEN Throw(TypeErrorNull)
       ELSE IF cards.t # "array" THEN Throw(TypeErrorMap)
       ELSE IF Len(cards.items) = 0
            THEN Return(Str(<<"[empty] No cards found.">>), <<>>)
       ELSE Return(Str(<<"[list] Found ", NumStr(Len(cards.items)),
                         " card(s):\n\n">> \o MapJoinCards(cards.items)),
                   <<>>))

\* const params = { idList, name }; if (args.desc) ...  (part_000 173-176)
AddParams(args, targetListId) ==
  <<Prop("idList", JStr(targetListId)), Prop("name", JOpt(args.name))>>
  \o (IF Truthy(args.desc) THEN <<Prop("desc", JStr(args.desc.s))>> ELSE <<>>)
  \o (IF Truthy(args.due) THEN <<Prop("due", JStr(args.due.s))>> ELSE <<>>)
  \o (IF Truthy(args.labels)
      THEN <<Prop("idLabels", JArr(SplitLabels(args.labels.s)))>> ELSE <<>>)

\* mutation of TargetListId: the configured default is not consulted
TargetExplicitOnly(args, config) == args.listId

\* mutation of TargetListId: the configured default wins
TargetDefaultFirst(args, config) == OrElse(config.defaultListId, args.listId)

\* args.listId || config.defaultListId
TargetListId(args, config) == OrElse(args.listId, config.defaultListId)

trello_add_start(args, e) ==
  CatchReturn(<<"[X] Failed to create card: ">>,
    LET cfg == getConfig(e)
        config == cfg.config
        targetListId == TargetListId(args, config)
    IN IF ~cfg.ok THEN Throw(cfg.msg)
       ELSE IF ~Truthy(targetListId)
            THEN Return(Str(<<"[warn] No list ID provided and no default list configured.">>),
                        <<>>)
       ELSE Await(trelloFetch(config, <<"/cards">>,
                    Options(Str(<<"POST">>), TRUE,
                            JSONstringify(AddParams(args, targetListId.s)),
                            <<>>),
                    <<>>), Locals(config, targetListId.s)))

\* `${card.name}`: a property of the parsed value
Field(json, name) ==
  IF json.t = "object" THEN json.items[1][name] ELSE <<"undefined">>

trello_add_resume(args, locals, response) ==
  CatchReturn(<<"[X] Failed to create card: ">>,
    LET r == trelloFetchSettle(response)
        card == r.json
    IN IF ~r.ok THEN Throw(r.msg)
       ELSE IF card.t = "null" THEN Throw(TypeErrorNull)
       ELSE Return(Str(<<"[ok] Created card: ">> \o Field(card, "name")
                       \o <<" (">> \o Field(card, "shortLink") \o <<")">>),
                   <<>>))

\* mutation of UpdateParams: closed is tested like the strings, if (args.closed)
UpdateParamsTruthyClosed(args) ==
  (IF Truthy(args.name) THEN <<Prop("name", JStr(args.name.s))>> ELSE <<>>)
  \o (IF Truthy(args.desc) THEN <<Prop("desc", JStr(args.desc.s))>> ELSE <<>>)
  \o (IF args.closed.def /\ args.closed.b
      THEN <<Prop("closed", JBool(args.closed.b))>> ELSE <<>>)
  \o (IF Truthy(args.listId) THEN <<Prop("idList", JStr(args.listId.s))>>
      ELSE <<>>)

\* part_000 202-206, plugin/trello.ts 291-296
UpdateParams(args) ==
  (IF Truthy(args.name) THEN <<Prop("name", JStr(args.name.s))>> ELSE <<>>)
  \o (IF Truthy(args.desc) THEN <<Prop("desc", JStr(args.desc.s))>> ELSE <<>>)
  \o (IF args.closed.def THEN <<Prop("closed", JBool(args.closed.b))>>
      ELSE <<>>)
  \o (IF Truthy(args.listId) THEN <<Prop("idList", JStr(args.listId.s))>>
      ELSE <<>>)

CardPath(args) == <<"/cards/">> \o Interp(args.cardId)

trello_update_start(args, e) ==
  CatchReturn(<<"[X] Failed to update card: ">>,
    LET cfg == getConfig(e)
    IN IF ~cfg.ok THEN Throw(cfg.msg)
       ELSE Await(trelloFetch(cfg.config, CardPath(args),
                    Options(Str(<<"PUT">>), TRUE,
                            JSONstringify(UpdateParams(args)), <<>>),
                    <<>>), Locals(cfg.config, <<>>)))

trello_update_resume(args, locals, response) ==
  CatchReturn(<<"[X] Failed to update card: ">>,
    LET r == trelloFetchSettle(response)
    IN IF ~r.ok THEN Throw(r.msg)
       ELSE Return(Str(<<"[ok] Updated card ">> \o Interp(args.cardId)), <<>>))

trello_delete_start(args, e) ==
  CatchReturn(<<"[X] Failed to delete card: ">>,
    LET cfg == getConfig(e)
    IN IF ~cfg.ok THEN Throw(cfg.msg)
       ELSE Await(trelloFetch(cfg.config, CardPath(args),
                    Options(Str(<<"DELETE">>), FALSE, <<>>, <<>>),
                    <<>>), Locals(cfg.config, <<>>)))

\* mutation of trello_delete_resume: a failed request is issued again
trello_delete_retry(args, locals, response) ==
  CatchReturn(<<"[X] Failed to delete card: ">>,
    LET r == trelloFetchSettle(response)
    IN IF ~r.ok
       THEN Await(trelloFetch(locals.config, CardPath(args),
                    Options(Str(<<"DELETE">>), FALSE, <<>>, <<>>), <<>>),
                  locals)
       ELSE Return(Str(<<"[bin] Permanently deleted card: ">>
                       \o Interp(args.cardId)), <<>>))

trello_delete_resume(args, locals, response) ==
  CatchReturn(<<"[X] Failed to delete card: ">>,
    LET r == trelloFetchSettle(response)
    IN IF ~r.ok THEN Throw(r.msg)
       ELSE Return(Str(<<"[bin] Permanently deleted card: ">>
                       \o Interp(args.cardId)), <<>>))

trello_boards_start(args, e) ==
  CatchReturn(<<"[X] Failed to list boards: ">>,
    LET cfg == getConfig(e)
    IN IF ~cfg.ok THEN Throw(cfg.msg)
       ELSE Await(trelloFetch(cfg.config, <<"/members/me/boards">>, NoOptions,
                    <<Param("fields", FieldsBoards)>>), Locals(cfg.config, <<>>)))

trello_boards_resume(args, locals, response) ==
  CatchReturn(<<"[X] Failed to list boards: ">>,
    LET r == trelloFetchSettle(response)
        boards == r.json
    IN IF ~r.ok THEN Throw(r.msg)
       ELSE IF boards.t = "null" THEN Throw(TypeErrorNull)
       ELSE IF boards.t # "array" THEN Throw(TypeErrorMap)
       ELSE Return(Str(<<"[list] Found ", NumStr(Len(boards.items)),
                         " board(s):\n\n">> \o MapJoinBoards(boards.items)),
                   <<>>))

trello_lists_start(args, e) ==
  CatchReturn(<<"[X] Failed to list lists: ">>,
    LET cfg == getConfig(e)
        config == cfg.config
    IN IF ~cfg.ok THEN Throw(cfg.msg)
       ELSE Await(trelloFetch(config,
                    <<"/boards/">> \o config.boardId \o <<"/lists">>,
                    NoOptions, <<Param("fields", FieldsLists)>>), Locals(config, <<>>)))

trello_lists_resume(args, locals, response) ==
  CatchReturn(<<"[X] Failed to list lists: ">>,
    LET r == trelloFetchSettle(response)
        lists == r.json
    IN IF ~r.ok THEN Throw(r.msg)
       ELSE IF lists.t = "null" THEN Throw(TypeErrorNull)
       ELSE IF lists.t # "array" THEN Throw(TypeErrorMap)
       ELSE Return(Str(<<"[list] Found ", NumStr(Len(lists.items)),
                         " list(s):\n\n">> \o MapJoinLists(lists.items)),
                   <<>>))

DoneParams == <<Prop("closed", JBool(TRUE))>>

trello_done_start(args, e) ==
  CatchReturn(<<"[X] Failed to mark card as done: ">>,
    LET cfg == getConfig(e)
    IN IF ~cfg.ok THEN Throw(cfg.msg)
       ELSE Await(trelloFetch(cfg.config, CardPath(args),
                    Options(Str(<<"PUT">>), TRUE, JSONstringify(DoneParams),
                            <<>>),
                    <<>>), Locals(cfg.config, <<>>)))

trello_done_resume(args, locals, response) ==
  CatchReturn(<<"[X] Failed to mark card as done: ">>,
    LET r == trelloFetchSettle(response)
    IN IF ~r.ok THEN Throw(r.msg)
       ELSE Return(Str(<<"[ok] Marked card as done: ">>
                       \o Interp(args.cardId)), <<>>))

SetupText == <<"TRELLO PLUGIN SETUP", "1. GET API KEY", "2. GET API TOKEN",
               "3. GET BOARD ID", "Add to your environment:">>

\* no try, no getConfig, no await
trello_setup_start(args, e) == Return(Str(SetupText), <<>>)

----------------------------------------------------------------------------
(* The tools of src/plugin/trello.ts (variant "logging").  execute() hands *)
(* its text to context.log.success/warn/error/info and returns undefined.  *)

\* catch (error) { context.log.error(`<prefix>${error.message}`) }
CatchLog(prefix, out) ==
  IF out.kind = "throw"
  THEN Return(Undefined, <<Log("error", prefix \o out.msg)>>) ELSE out

\* '/boards/${config.boardId}/cards' is written in single quotes
\* (plugin/trello.ts 165): no interpolation takes place
BoardCardsPathSdk(config) == <<"/boards/${config.boardId}/cards">>

trelloList_start(args, e) ==
  CatchLog(<<"[X] Failed to list cards: ">>,
    LET cfg == getConfigSdk(e)
        config == cfg.config
        listId == args.listId
    IN IF ~cfg.ok THEN Throw(cfg.msg)
       ELSE Await(trelloFetchSdk(config,
                    IF Truthy(listId)
                    THEN <<"/lists/">> \o listId.s \o <<"/cards">>
                    ELSE BoardCardsPathSdk(config),
                    IF Truthy(listId) THEN NoOptions
                    ELSE Options(Undefined, FALSE, <<>>,
                                 <<Param("fields", FieldsCards)>>)), Locals(config, <<>>)))

trelloList_resume(args, locals, response) ==
  CatchLog(<<"[X] Failed to list cards: ">>,
    LET r == trelloFetchSettle(response)
        cards == r.json
    IN IF ~r.ok THEN Throw(r.msg)
       ELSE IF cards.t = "null" THEN Throw(TypeErrorNull)
       ELSE IF cards.t # "array" THEN Throw(TypeErrorMap)
       ELSE IF Len(cards.items) = 0
            THEN Return(Undefined,
                        <<Log("success", <<"[empty] No cards found.">>)>>)
       ELSE Return(Undefined,
              <<Log("success",
                    <<"[list] Found ", NumStr(Len(cards.items)),
                      " card(s):\n\n">> \o MapJoinCards(cards.items))>>))

trelloAdd_start(args, e) ==
  CatchLog(<<"[X] Failed to create card: ">>,
    LET cfg == getConfigSdk(e)
        config == cfg.config
        targetListId == TargetListId(args, config)
    IN IF ~cfg.ok THEN Throw(cfg.msg)
       ELSE IF ~Truthy(targetListId)
            THEN Return(Undefined,
                   <<Log("warn", <<"[warn] No list ID provided and no default list configured. Use /trello-lists to see available lists.">>)>>)
       ELSE Await(trelloFetchSdk(config, <<"/cards">>,
                    Options(Str(<<"POST">>), TRUE,
                            JSONstringify(AddParams(args, targetListId.s)),
                            <<>>)), Locals(config, targetListId.s)))

trelloAdd_resume(args, locals, response) ==
  CatchLog(<<"[X] Failed to create card: ">>,
    LET r == trelloFetchSettle(response)
        card == r.json
    IN IF ~r.ok THEN Throw(r.msg)
       ELSE IF card.t = "null" THEN Throw(TypeErrorNull)
       ELSE Return(Undefined,
              <<Log("success",
                    <<"[ok] Created card:\n", "   Name: ">>
                    \o Field(card, "name") \o <<"\n", "   ID: ">>
                    \o Field(card, "shortLink") \o <<"\n", "   List: ">>
                    \o locals.targetListId \o <<"\n", "   URL: ">>
                    \o Field(card, "url"))>>))

\* the updates list of plugin/trello.ts 307-311, joined with ', '
UpdatesText(args) ==
  LET updates ==
        (IF Truthy(args.name)
         THEN <<(<<"name -> \"">> \o args.name.s \o <<"\"">>)>> ELSE <<>>)
        \o (IF Truthy(args.desc) THEN <<(<<"description updated">>)>>
            ELSE <<>>)
        \o (IF args.closed.def
            THEN <<(IF args.closed.b THEN <<"marked as done">>
                    ELSE <<"reopened">>)>>
            ELSE <<>>)
        \o (IF Truthy(args.listId)
            THEN <<(<<"moved to list ">> \o args.listId.s)>> ELSE <<>>)
  IN IF updates = <<>> THEN <<"none">> ELSE Join(updates, <<", ">>)

trelloUpdate_start(args, e) ==
  CatchLog(<<"[X] Failed to update card: ">>,
    LET cfg == getConfigSdk(e)
    IN IF ~cfg.ok THEN Throw(cfg.msg)
       ELSE Await(trelloFetchSdk(cfg.config, CardPath(args),
                    Options(Str(<<"PUT">>), TRUE,
                            JSONstringify(UpdateParams(args)), <<>>)), Locals(cfg.config, <<>>)))

trelloUpdate_resume(args, locals, response) ==
  CatchLog(<<"[X] Failed to update card: ">>,
    LET r == trelloFetchSettle(response)
        card == r.json
    IN IF ~r.ok THEN Throw(r.msg)
       ELSE IF card.t = "null" THEN Throw(TypeErrorNull)
       ELSE Return(Undefined,
              <<Log("success",
                    <<"[ok] Updated card ">> \o Interp(args.cardId)
                    \o <<":\n", "   Changes: ">> \o UpdatesText(args)
                    \o <<"\n", "   URL: ">> \o Field(card, "url"))>>))

trelloDelete_start(args, e) ==
  CatchLog(<<"[X] Failed to delete card: ">>,
    LET cfg == getConfigSdk(e)
    IN IF ~cfg.ok THEN Throw(cfg.msg)
       ELSE Await(trelloFetchSdk(cfg.config, CardPath(args),
                    Options(Str(<<"DELETE">>), FALSE, <<>>, <<>>)), Locals(cfg.config, <<>>)))

trelloDelete_resume(args, locals, response) ==
  CatchLog(<<"[X] Failed to delete card: ">>,
    LET r == trelloFetchSettle(response)
    IN IF ~r.ok THEN Throw(r.msg)
       ELSE Return(Undefined,
              <<Log("success", <<"[bin] Permanently deleted card: ">>
                               \o Interp(args.cardId))>>))

trelloBoards_start(args, e) ==
  CatchLog(<<"[X] Failed to list boards: ">>,
    LET cfg == getConfigSdk(e)
    IN IF ~cfg.ok THEN Throw(cfg.msg)
       ELSE Await(trelloFetchSdk(cfg.config, <<"/members/me/boards">>,
                    Options(Undefined, FALSE, <<>>,
                            <<Param("fields", FieldsBoards)>>)), Locals(cfg.config, <<>>)))

trelloBoards_resume(args, locals, response) ==
  CatchLog(<<"[X] Failed to list boards: ">>,
    LET r == trelloFetchSettle(response)
        boards == r.json
    IN IF ~r.ok THEN Throw(r.msg)
       ELSE IF boards.t = "null" THEN Throw(TypeErrorNull)
       ELSE IF boards.t # "array" THEN Throw(TypeErrorMap)
       ELSE IF Len(boards.items) = 0
            THEN Return(Undefined,
                        <<Log("success", <<"[empty] No boards found.">>)>>)
       ELSE Return(Undefined,
              <<Log("success",
                    <<"[list] Found ", NumStr(Len(boards.items)),
                      " board(s):\n\n">> \o MapJoinBoards(boards.items)),
                Log("info", <<"\n[tip] To use a board, set TRELLO_BOARD_ID environment variable.">>)>>))

trelloLists_start(args, e) ==
  CatchLog(<<"[X] Failed to list lists: ">>,
    LET cfg == getConfigSdk(e)
        config == cfg.config
    IN IF ~cfg.ok THEN Throw(cfg.msg)
       ELSE Await(trelloFetchSdk(config,
                    <<"/boards/">> \o config.boardId \o <<"/lists">>,
                    Options(Undefined, FALSE, <<>>,
                            <<Param("fields", FieldsLists)>>)), Locals(config, <<>>)))

trelloLists_resume(args, locals, response) ==
  CatchLog(<<"[X] Failed to list lists: ">>,
    LET r == trelloFetchSettle(response)
        lists == r.json
    IN IF ~r.ok THEN Throw(r.msg)
       ELSE IF lists.t = "null" THEN Throw(TypeErrorNull)
       ELSE IF lists.t # "array" THEN Throw(TypeErrorMap)
       ELSE IF Len(lists.items) = 0
            THEN Return(Undefined,
                        <<Log("success", <<"[empty] No lists found.">>)>>)
       ELSE Return(Undefined,
              <<Log("success",
                    <<"[list] Found ", NumStr(Len(lists.items)),
                      " list(s):\n\n">> \o MapJoinLists(lists.items)),
                Log("info", <<"\n[tip] Use a list ID with /trello-add or set TRELLO_DEFAULT_LIST_ID.">>)>>))

trelloDone_start(args, e) ==
  CatchLog(<<"[X] Failed to mark card as done: ">>,
    LET cfg == getConfigSdk(e)
    IN IF ~cfg.ok THEN Throw(cfg.msg)
       ELSE Await(trelloFetchSdk(cfg.config, CardPath(args),
                    Options(Str(<<"PUT">>), TRUE, JSONstringify(DoneParams),
                            <<>>)), Locals(cfg.config, <<>>)))

trelloDone_resume(args, locals, response) ==
  CatchLog(<<"[X] Failed to mark card as done: ">>,
    LET r == trelloFetchSettle(response)
        card == r.json
    IN IF ~r.ok THEN Throw(r.msg)
       ELSE IF card.t = "null" THEN Throw(TypeErrorNull)
       ELSE Return(Undefined,
              <<Log("success", <<"[ok] Marked card as done: ">>
                               \o Field(card, "name") \o <<" (">>
                               \o Interp(args.cardId) \o <<")">>)>>))

SetupTextSdk == <<"TRELLO PLUGIN SETUP", "1. GET API KEY", "2. GET API TOKEN",
                  "3. GET BOARD ID", "4. GET DEFAULT LIST ID",
                  "5. SET ENVIRONMENT VARIABLES", "6. RELOAD YOUR SHELL",
                  "7. VERIFY SETUP">>

trelloSetup_start(args, e) == Return(Undefined, <<Log("info", SetupTextSdk)>>)

----------------------------------------------------------------------------
(* The host: it loads one of the two plugin files and calls the tools.     *)

Variants == {"returning", "logging"}
Ops == {"list", "add", "update", "delete", "boards", "lists", "done", "setup"}

Start(v, op, args, e) ==
  IF v = "returning"
  THEN CASE op = "list" -> trello_list_start(args, e)
         [] op = "add" -> trello_add_start(args, e)
         [] op = "update" -> trello_update_start(args, e)
         [] op = "delete" -> trello_delete_start(args, e)
         [] op = "boards" -> trello_boards_start(args, e)
         [] op = "lists" -> trello_lists_start(args, e)
         [] op = "done" -> trello_done_start(args, e)
         [] op = "setup" -> trello_setup_start(args, e)
  ELSE CASE op = "list" -> trelloList_start(args, e)
         [] op = "add" -> trelloAdd_start(args, e)
         [] op = "update" -> trelloUpdate_start(args, e)
         [] op = "delete" -> trelloDelete_start(args, e)
         [] op = "boards" -> trelloBoards_start(args, e)
         [] op = "lists" -> trelloLists_start(args, e)
         [] op = "done" -> trelloDone_start(args, e)
         [] op = "setup" -> trelloSetup_start(args, e)

Resume(v, op, args, locals, response) ==
  IF v = "returning"
  THEN CASE op = "list" -> trello_list_resume(args, locals, response)
         [] op = "add" -> trello_add_resume(args, locals, response)
         [] op = "update" -> trello_update_resume(args, locals, response)
         [] op = "delete" -> trello_delete_resume(args, locals, response)
         [] op = "boards" -> trello_boards_resume(args, locals, response)
         [] op = "lists" -> trello_lists_resume(args, locals, response)
         [] op = "done" -> trello_done_resume(args, locals, response)
  ELSE CASE op = "list" -> trelloList_resume(args, locals, response)
         [] op = "add" -> trelloAdd_resume(args, locals, response)
         [] op = "update" -> trelloUpdate_resume(args, locals, response)
         [] op = "delete" -> trelloDelete_resume(args, locals, response)
         [] op = "boards" -> trelloBoards_resume(args, locals, response)
         [] op = "lists" -> trelloLists_resume(args, locals, response)
         [] op = "done" -> trelloDone_resume(args, locals, response)

----------------------------------------------------------------------------
(* Inputs *)

OptStrings(values) == {Undefined} \cup {Str(s) : s \in values}
OptBools == {[def |-> FALSE, b |-> FALSE], [def |-> TRUE, b |-> FALSE],
             [def |-> TRUE, b |-> TRUE]}
NoBool == [def |-> FALSE, b |-> FALSE]

EnvValues(name) ==
  CASE name = "TRELLO_API_KEY" -> OptStrings({<<>>, <<"k", "&", "1">>})
    [] name = "TRELLO_API_TOKEN" -> OptStrings({<<"t1">>})
    [] name = "TRELLO_BOARD_ID" -> OptStrings({<<"B1">>})
    [] name = "TRELLO_DEFAULT_LIST_ID" -> OptStrings({<<>>, <<"L0">>})

Envs == {e \in [EnvNames -> OptStrings({<<>>, <<"k", "&", "1">>, <<"t1">>,
                                         <<"B1">>, <<"L0">>})] :
           \A n \in EnvNames : e[n] \in EnvValues(n)}

NoArgs == [listId |-> Undefined, name |-> Undefined, desc |-> Undefined,
           due |-> Undefined, labels |-> Undefined, cardId |-> Undefined,
           closed |-> NoBool]

ListIds == OptStrings({<<>>, <<"L7">>})

ArgsOf(op) ==
  CASE op = "list" -> {[NoArgs EXCEPT !.listId = l] : l \in ListIds}
    [] op = "add" ->
         {[NoArgs EXCEPT !.name = Str(<<"Buy milk">>), !.listId = l,
                         !.desc = d, !.due = u, !.labels = b] :
            l \in ListIds, d \in OptStrings({<<"d">>}),
            u \in OptStrings({<<"2026-02-03">>}),
            b \in OptStrings({<<"a", ",", " ", "b">>})}
    [] op = "update" ->
         {[NoArgs EXCEPT !.cardId = Str(<<"c1">>), !.name = n, !.desc = d,
                         !.closed = c, !.listId = l] :
            n \in OptStrings({<<>>, <<"n">>}), d \in OptStrings({<<>>, <<"d">>}),
            c \in OptBools, l \in ListIds}
    [] op \in {"delete", "done"} -> {[NoArgs EXCEPT !.cardId = Str(<<"c1">>)]}
    [] OTHER -> {NoArgs}

Card1 == [id |-> <<"id1">>, name |-> <<"Buy milk">>, desc |-> <<>>,
          url |-> <<"https://trello.com/c/abc">>, shortLink |-> <<"abc">>,
          idList |-> <<"L7">>, closed |-> FALSE, due |-> Undefined,
          labels |-> <<>>]
Card2 == [id |-> <<"id2">>, name |-> <<"Pay rent">>,
          desc |-> <<"r", "e", "n", "t">>,
          url |-> <<"https://trello.com/c/xyz">>, shortLink |-> <<"xyz">>,
          idList |-> <<"L0">>, closed |-> TRUE, due |-> Str(<<"2026-02-03">>),
          labels |-> <<[color |-> <<"red">>, name |-> <<"home">>],
                       [color |-> <<"blue">>, name |-> <<"bills">>]>>]
\* n times the character c
Chars(c, n) == [i \in 1..n |-> c]

\* descriptions of exactly 100 and of 101 characters
Card3 == [Card1 EXCEPT !.id = <<"id3">>, !.name = <<"Long">>,
                       !.shortLink = <<"lmn">>,
                       !.desc = Chars("x", DescLimit)]
Card4 == [Card1 EXCEPT !.id = <<"id4">>, !.name = <<"Longer">>,
                       !.shortLink = <<"opq">>,
                       !.desc = Chars("y", DescLimit + 1)]

List1 == [id |-> <<"L7">>, name |-> <<"To do">>, closed |-> FALSE]
List2 == [id |-> <<"L0">>, name |-> <<"Old">>, closed |-> TRUE]
Board1 == [id |-> <<"B1">>, name |-> <<"Home">>,
           url |-> <<"https://trello.com/b/B1">>]
Board2 == [id |-> <<"B2">>, name |-> <<"Work">>,
           url |-> <<"https://trello.com/b/B2">>]

SeqsUpTo(S, n) == UNION {[1..k -> S] : k \in 0..n}

\* what the body of a 2xx answer parses to, for the call of each tool
Payloads(op) ==
  {JNull} \cup
  CASE op = "list" ->
         {JArray(a) : a \in SeqsUpTo({Card1, Card2, Card3, Card4}, MaxItems)}
    [] op = "boards" ->
         {JArray(a) : a \in SeqsUpTo({Board1, Board2}, MaxItems)}
    [] op = "lists" -> {JArray(a) : a \in SeqsUpTo({List1, List2}, MaxItems)}
    [] OTHER -> {JObject(Card1), JObject(Card2)}

ErrorStatuses == {404, 500}
ErrorTexts == {<<"card not found">>, <<>>}
TransportErrors == {<<"fetch failed">>}

----------------------------------------------------------------------------
(* State machine *)

Idle == [pc |-> "idle", op |-> "setup", args |-> NoArgs, requests |-> <<>>,
         locals |-> NoLocals, ret |-> Undefined, logs |-> <<>>,
         escaped |-> FALSE, response |-> Rejected(<<>>)]

Procs == DOMAIN inv

Init ==
  /\ variant \in Variants
  /\ env \in Envs
  /\ inv = [p \in {1} |-> Idle]

\* the invocation after a handler half has run to `out`
After(cur, out) ==
  CASE out.kind = "await" ->
         [cur EXCEPT !.pc = "fetching",
                     !.requests = Append(cur.requests, out.req),
                     !.locals = out.locals]
    [] out.kind = "return" ->
         [cur EXCEPT !.pc = "done", !.ret = out.ret,
                     !.logs = cur.logs \o out.logs]
    [] out.kind = "throw" ->
         [cur EXCEPT !.pc = "done", !.escaped = TRUE]

\* the host calls execute(args) of a tool
Invoke(p, op, args) ==
  /\ inv[p].pc = "idle"
  /\ inv' = [inv EXCEPT ![p] =
               After([Idle EXCEPT !.op = op, !.args = args],
                     Start(variant, op, args, env))]
  /\ UNCHANGED <<variant, env>>

\* mutation of Settle: args is one variable shared by the invocations in
\* flight, so the handler may resume with the arguments of another call
SettleSharedArgs(p, response) ==
  /\ inv[p].pc = "fetching"
  /\ \E q \in DOMAIN inv :
       /\ inv[q].pc = "fetching"
       /\ inv' = [inv EXCEPT ![p] =
                    After([inv[p] EXCEPT !.response = response],
                          Resume(variant, inv[p].op, inv[q].args,
                                 inv[p].locals, response))]
  /\ UNCHANGED <<variant, env>>

\* the fetch of invocation p settles with `response`
Settle(p, response) ==
  /\ inv[p].pc = "fetching"
  /\ inv' = [inv EXCEPT ![p] =
               After([inv[p] EXCEPT !.response = response],
                     Resume(variant, inv[p].op, inv[p].args, inv[p].locals,
                            response))]
  /\ UNCHANGED <<variant, env>>

FetchRejects(p) == \E m \in TransportErrors : Settle(p, Rejected(m))

RespondError(p) ==
  \E s \in ErrorStatuses, b \in ErrorTexts :
     Settle(p, Responded(s, b, FALSE, JNull))

RespondUnparseable(p) ==
  Settle(p, Responded(200, <<"<html>">>, FALSE, JNull))

RespondJson(p) ==
  \E j \in Payloads(inv[p].op) : Settle(p, Responded(200, <<"json">>, TRUE, j))

\* the host takes the result; the next tool call starts afresh
Finish(p) ==
  /\ inv[p].pc = "done"
  /\ inv' = [inv EXCEPT ![p] = Idle]
  /\ UNCHANGED <<variant, env>>

Next ==
  \/ \E p \in Procs, op \in Ops : \E args \in ArgsOf(op) : Invoke(p, op, args)
  \/ \E p \in Procs : FetchRejects(p)
  \/ \E p \in Procs : RespondError(p)
  \/ \E p \in Procs : RespondUnparseable(p)
  \/ \E p \in Procs : RespondJson(p)
  \/ \E p \in Procs : Finish(p)

Spec == Init /\ [][Next]_vars

----------------------------------------------------------------------------
(* Two invocations in flight at once: the host calls a second tool while   *)
(* the first is suspended in its fetch.  The handlers run on one thread    *)
(* and interleave at their awaits only.  Inputs are a sample of those of   *)
(* Spec, with two card ids so that the calls can be told apart.            *)

EnvComplete ==
  [n \in EnvNames |->
     CASE n = "TRELLO_API_KEY" -> Str(<<"k", "&", "1">>)
       [] n = "TRELLO_API_TOKEN" -> Str(<<"t1">>)
       [] n = "TRELLO_BOARD_ID" -> Str(<<"B1">>)
       [] n = "TRELLO_DEFAULT_LIST_ID" -> Str(<<"L0">>)]

EnvsConc == {EnvComplete,
             [EnvComplete EXCEPT !["TRELLO_API_TOKEN"] = Undefined]}

CardIds == {Str(<<"c1">>), Str(<<"c2">>)}

ArgsConc(op) ==
  CASE op = "list" ->
         {[NoArgs EXCEPT !.listId = l] : l \in {Undefined, Str(<<"L7">>)}}
    [] op = "add" ->
         {[NoArgs EXCEPT !.name = Str(<<"Buy milk">>)],
          [NoArgs EXCEPT !.name = Str(<<"Pay rent">>),
                         !.listId = Str(<<"L7">>)]}
    [] op = "update" ->
         {[NoArgs EXCEPT !.cardId = Str(<<"c1">>),
                         !.closed = [def |-> TRUE, b |-> FALSE]],
          [NoArgs EXCEPT !.cardId = Str(<<"c2">>), !.name = Str(<<"n">>)]}
    [] op \in {"delete", "done"} -> {[NoArgs EXCEPT !.cardId = c] : c \in CardIds}
    [] OTHER -> {NoArgs}

PayloadsConc(op) ==
  CASE op = "list" -> {JArray(<<>>), JArray(<<Card1>>), JArray(<<Card2>>)}
    [] op = "boards" -> {JArray(<<Board1>>), JArray(<<Board2>>)}
    [] op = "lists" -> {JArray(<<List1>>), JArray(<<List2>>)}
    [] OTHER -> {JObject(Card1), JObject(Card2)}

InitConc ==
  /\ variant \in Variants
  /\ env \in EnvsConc
  /\ inv = [p \in {1, 2} |-> Idle]

RespondJsonConc(p) ==
  \E j \in PayloadsConc(inv[p].op) :
     Settle(p, Responded(200, <<"json">>, TRUE, j))

NextConc ==
  \/ \E p \in Procs, op \in Ops : \E args \in ArgsConc(op) : Invoke(p, op, args)
  \/ \E p \in Procs : FetchRejects(p)
  \/ \E p \in Procs : RespondError(p)
  \/ \E p \in Procs : RespondUnparseable(p)
  \/ \E p \in Procs : RespondJsonConc(p)
  \/ \E p \in Procs : Finish(p)

SpecConc == InitConc /\ [][NextConc]_vars

----------------------------------------------------------------------------
(* Vocabulary of the properties *)

Done(p) == inv[p].pc = "done"
Called(p) == inv[p].pc # "idle"

\* the required configuration is there
ConfigComplete ==
  /\ Truthy(env["TRELLO_API_KEY"])
  /\ Truthy(env["TRELLO_API_TOKEN"])
  /\ Truthy(env["TRELLO_BOARD_ID"])

\* the texts invocation p has handed to the host, by either channel
Texts(p) ==
  (IF inv[p].ret.def THEN {inv[p].ret.s} ELSE {})
  \cup {inv[p].logs[i].text : i \in 1..Len(inv[p].logs)}

StartsWith(text, prefix) ==
  Len(text) >= Len(prefix) /\ SubSeq(text, 1, Len(prefix)) = prefix

FailurePrefix(op) ==
  CASE op = "list" -> <<"[X] Failed to list cards: ">>
    [] op = "add" -> <<"[X] Failed to create card: ">>
    [] op = "update" -> <<"[X] Failed to update card: ">>
    [] op = "delete" -> <<"[X] Failed to delete card: ">>
    [] op = "boards" -> <<"[X] Failed to list boards: ">>
    [] op = "lists" -> <<"[X] Failed to list lists: ">>
    [] op = "done" -> <<"[X] Failed to mark card as done: ">>
    [] OTHER -> <<"[X] ">>

ConfigMessage ==
  IF variant = "returning" THEN ConfigIncomplete ELSE ConfigIncompleteSdk

\* p ended with the configuration error as its one text
ConfigErrorResult(p) ==
  /\ Texts(p) = {FailurePrefix(inv[p].op) \o ConfigMessage}
  /\ variant = "logging" =>
       Len(inv[p].logs) = 1 /\ inv[p].logs[1].level = "error"

----------------------------------------------------------------------------
(* C1 *)

\* C1 as stated: every completed invocation, of either variant, has let no
\* exception escape and has RETURNED a text from execute.
C1_TextReturned ==
  \A p \in Procs :
     Done(p) => ~inv[p].escaped /\ inv[p].ret.def /\ inv[p].ret.s # <<>>

\* C1 amended: every completed invocation has let no exception escape and
\* has handed the host a non-empty text: in part_000 as the value execute
\* returns (nothing is logged), in plugin/trello.ts through context.log
\* (one or two calls) while execute returns undefined.
C1_TextHanded ==
  \A p \in Procs :
     Done(p) =>
       /\ ~inv[p].escaped
       /\ variant = "returning" =>
            inv[p].ret.def /\ inv[p].ret.s # <<>> /\ inv[p].logs = <<>>
       /\ variant = "logging" =>
            /\ ~inv[p].ret.def
            /\ Len(inv[p].logs) \in {1, 2}
            /\ \A i \in 1..Len(inv[p].logs) : inv[p].logs[i].text # <<>>

\* a call of the returning variant ended by the catch block after the 2xx
\* body did not parse
C1_Witness ==
  \E p \in Procs :
     /\ Done(p) /\ variant = "returning" /\ inv[p].op = "delete"
     /\ inv[p].response.kind = "http" /\ inv[p].response.status = 200
     /\ ~inv[p].response.parses
     /\ inv[p].ret = Str(<<"[X] Failed to delete card: ">> \o SyntaxError)

----------------------------------------------------------------------------
(* C2 *)

\* C2 as stated: with a required configuration field missing, each of the
\* eight operations ends with the configuration error and has issued no
\* request.
C2_AllEightConfigError ==
  \A p \in Procs :
     (Done(p) /\ ~ConfigComplete) =>
        ConfigErrorResult(p) /\ inv[p].requests = <<>>

\* C2 amended: with a required configuration field missing, an invocation
\* never issues a request; each of the seven operations other than setup
\* help ends with the configuration error, and setup help, which never
\* reads the configuration, ends with its static instructions.
C2_ConfigErrorBeforeNetwork ==
  \A p \in Procs :
     (Called(p) /\ ~ConfigComplete) =>
        /\ Done(p)
        /\ inv[p].requests = <<>>
        /\ inv[p].op # "setup" => ConfigErrorResult(p)
        /\ inv[p].op = "setup" =>
             Texts(p) = {IF variant = "returning" THEN SetupText
                         ELSE SetupTextSdk}

\* list lists called with only the board identifier missing
C2_Witness ==
  \E p \in Procs :
     /\ Done(p) /\ inv[p].op = "lists"
     /\ Truthy(env["TRELLO_API_KEY"]) /\ Truthy(env["TRELLO_API_TOKEN"])
     /\ ~Truthy(env["TRELLO_BOARD_ID"])
     /\ ConfigErrorResult(p)

----------------------------------------------------------------------------
(* C3 *)

BodyHas(req, name, val) ==
  \E i \in 1..Len(req.body) :
     req.body[i].name = name /\ req.body[i].val = val

WarningResult(p) ==
  IF variant = "returning"
  THEN Texts(p) =
         {<<"[warn] No list ID provided and no default list configured.">>}
  ELSE /\ Len(inv[p].logs) = 1
       /\ inv[p].logs[1].level = "warn"
       /\ inv[p].logs[1].text =
            <<"[warn] No list ID provided and no default list configured. Use /trello-lists to see available lists.">>
       /\ ~inv[p].ret.def

\* C3: add card under a complete configuration.  Without an explicit list
\* id (absent or empty) and without a configured default it ends with the
\* precondition warning and no request; otherwise it issues one POST to
\* /cards whose idList is the explicit list id if given, else the default.
C3_AddTargetList ==
  \A p \in Procs :
     (Called(p) /\ inv[p].op = "add" /\ ConfigComplete) =>
        LET explicit == inv[p].args.listId
            default == env["TRELLO_DEFAULT_LIST_ID"]
        IN IF ~Truthy(explicit) /\ ~Truthy(default)
           THEN Done(p) /\ inv[p].requests = <<>> /\ WarningResult(p)
           ELSE /\ Len(inv[p].requests) = 1
                /\ inv[p].requests[1].method = <<"POST">>
                /\ inv[p].requests[1].path = <<"/cards">>
                /\ BodyHas(inv[p].requests[1], "idList",
                           JStr(IF Truthy(explicit) THEN explicit.s
                                ELSE default.s))

\* the explicit list id L7 wins over the configured default L0
C3_Witness ==
  \E p \in Procs :
     /\ inv[p].pc = "fetching" /\ inv[p].op = "add" /\ ConfigComplete
     /\ inv[p].args.listId = Str(<<"L7">>)
     /\ env["TRELLO_DEFAULT_LIST_ID"] = Str(<<"L0">>)
     /\ BodyHas(inv[p].requests[1], "idList", JStr(<<"L7">>))

----------------------------------------------------------------------------
(* C4 *)

\* the fetch of p settled with a non-success HTTP status
GotErrorStatus(p) ==
  /\ Done(p) /\ Len(inv[p].requests) = 1
  /\ inv[p].response.kind = "http" /\ ~ResponseOk(inv[p].response)

\* C4: when the remote call of an operation completes with a non-success
\* status S and body text B, the operation hands the host a failure text
\* that contains S and contains B unchanged.
C4_StatusAndBodySurfaced ==
  \A p \in Procs :
     GotErrorStatus(p) =>
       \E text \in Texts(p) :
          /\ StartsWith(text, FailurePrefix(inv[p].op))
          /\ Contains(text, <<NumStr(inv[p].response.status)>>)
          /\ Contains(text, inv[p].response.text)

\* mark done answered with 404 "card not found", logging variant
C4_Witness ==
  \E p \in Procs :
     /\ GotErrorStatus(p) /\ variant = "logging" /\ inv[p].op = "done"
     /\ inv[p].response.status = 404
     /\ inv[p].response.text = <<"card not found">>
     /\ inv[p].logs =
          <<Log("error", <<"[X] Failed to mark card as done: ",
                           "Trello API error (", "404", "): ",
                           "card not found">>)>>

----------------------------------------------------------------------------
(* C5 *)

\* C5 as stated: every completed invocation has issued exactly one request.
C5_ExactlyOneRequest ==
  \A p \in Procs : Done(p) => Len(inv[p].requests) = 1

\* the invocation gets as far as its fetch
ReachesFetch(p) ==
  /\ inv[p].op # "setup"
  /\ ConfigComplete
  /\ inv[p].op = "add" =>
       Truthy(inv[p].args.listId) \/ Truthy(env["TRELLO_DEFAULT_LIST_ID"])

\* C5 amended: a completed invocation has issued at most one request:
\* exactly one when the operation is not setup help, the required
\* configuration is complete and, for add card, a target list resolves;
\* none otherwise.
C5_OneRequestIfReached ==
  \A p \in Procs :
     Done(p) => Len(inv[p].requests) = (IF ReachesFetch(p) THEN 1 ELSE 0)

\* update card completed on a parsed 2xx answer, one request issued
C5_Witness ==
  \E p \in Procs :
     /\ Done(p) /\ inv[p].op = "update" /\ ReachesFetch(p)
     /\ inv[p].response.kind = "http" /\ inv[p].response.parses
     /\ Len(inv[p].requests) = 1
     /\ inv[p].requests[1].method = <<"PUT">>

----------------------------------------------------------------------------
(* C6 *)

\* C6: within one invocation, once a request has been issued or the
\* invocation has ended (on a configuration or precondition error, or on
\* the failure of its request), no step issues a further request: the
\* invocation never issues more than one.
C6_NoRetry ==
  [][\A p \in Procs :
       inv'[p].pc # "idle" =>
         /\ Len(inv'[p].requests) <= 1
         /\ (Len(inv[p].requests) >= 1 \/ Done(p)) =>
              inv'[p].requests = inv[p].requests]_vars

\* delete card ended on a transport failure with its single request
C6_Witness ==
  \E p \in Procs :
     /\ Done(p) /\ inv[p].op = "delete" /\ inv[p].response.kind = "reject"
     /\ inv[p].response.msg = <<"fetch failed">>
     /\ Len(inv[p].requests) = 1
     /\ \E text \in Texts(p) :
          text = <<"[X] Failed to delete card: ", "fetch failed">>

----------------------------------------------------------------------------
(* C7 *)

NoneFound(op) ==
  CASE op = "list" -> <<"[empty] No cards found.">>
    [] op = "boards" -> <<"[empty] No boards found.">>
    [] op = "lists" -> <<"[empty] No lists found.">>
    [] OTHER -> <<>>

\* the remote service answered p with an empty array
GotEmptyCollection(p) ==
  /\ Done(p) /\ inv[p].op \in {"list", "boards", "lists"}
  /\ inv[p].response.kind = "http" /\ ResponseOk(inv[p].response)
  /\ inv[p].response.parses /\ inv[p].response.json = JArray(<<>>)

\* C7: on an empty collection each of list cards, list boards and list
\* lists hands over its "none found" message and nothing else: no text
\* with the "Found 0 ..." header of the formatting pass.
C7_NoneFoundOnEmpty ==
  \A p \in Procs :
     GotEmptyCollection(p) =>
       /\ Texts(p) = {NoneFound(inv[p].op)}
       /\ \A text \in Texts(p) : ~StartsWith(text, <<"[list] Found ">>)

----------------------------------------------------------------------------
(* C8 *)

\* the query string of req carries name with a value that decodes to value
QueryHas(req, name, value) ==
  /\ HasParam(req.query, name)
  /\ Decode(ParamOf(req.query, name)) = value

\* C8: every request an operation has issued carries key = the configured
\* api key and token = the configured api token in its query string,
\* whatever per-call parameters the operation passes.
C8_AuthPairInQuery ==
  \A p \in Procs :
     \A i \in 1..Len(inv[p].requests) :
        /\ QueryHas(inv[p].requests[i], "key", env["TRELLO_API_KEY"].s)
        /\ QueryHas(inv[p].requests[i], "token", env["TRELLO_API_TOKEN"].s)

\* list lists of the returning variant in flight: key, token and the
\* per-call fields filter, the key k&1 percent-encoded
C8_Witness ==
  \E p \in Procs :
     /\ inv[p].pc = "fetching" /\ inv[p].op = "lists"
     /\ variant = "returning"
     /\ env["TRELLO_API_KEY"] = Str(<<"k", "&", "1">>)
     /\ inv[p].requests[1].query =
          <<Param("key", <<"k", "%26", "1">>), Param("token", <<"t1">>),
            Param("fields", <<"name", "%2C", "closed", "%2C", "pos">>)>>

----------------------------------------------------------------------------
(* C9 *)

FieldsOf(op) ==
  CASE op = "list" -> FieldsCards
    [] op = "boards" -> FieldsBoards
    [] op = "lists" -> FieldsLists
    [] OTHER -> <<>>

\* C9: the request of list cards without a list filter, of list boards and
\* of list lists carries that operation's fields filter in its query
\* string.
C9_FieldsFilterInQuery ==
  \A p \in Procs :
     \A i \in 1..Len(inv[p].requests) :
        (\/ inv[p].op \in {"boards", "lists"}
         \/ inv[p].op = "list" /\ ~Truthy(inv[p].args.listId)) =>
           QueryHas(inv[p].requests[i], "fields", FieldsOf(inv[p].op))

----------------------------------------------------------------------------
(* C10 *)

\* C10: list cards issues a GET on /lists/<listId>/cards when a non-empty
\* list filter is given, and otherwise on the cards of the configured
\* board: the path contains the value of the configured board identifier.
C10_ListCardsPath ==
  \A p \in Procs :
     \A i \in 1..Len(inv[p].requests) :
        inv[p].op = "list" =>
          /\ inv[p].requests[i].method = <<"GET">>
          /\ IF Truthy(inv[p].args.listId)
             THEN inv[p].requests[i].path =
                    <<"/lists/">> \o inv[p].args.listId.s \o <<"/cards">>
             ELSE /\ Contains(inv[p].requests[i].path,
                              env["TRELLO_BOARD_ID"].s)
                  /\ StartsWith(inv[p].requests[i].path, <<"/boards/">>)
                  /\ inv[p].requests[i].path[Len(inv[p].requests[i].path)]
                       = "/cards"

----------------------------------------------------------------------------
(* C11 *)

BodyNames(req) == {req.body[i].name : i \in 1..Len(req.body)}

\* the fields of update card the caller supplied (passed at all)
Supplied(args) ==
  {n \in {"name", "desc", "closed", "idList"} :
     CASE n = "name" -> args.name.def
       [] n = "desc" -> args.desc.def
       [] n = "closed" -> args.closed.def
       [] n = "idList" -> args.listId.def}

\* the fields supplied with a value the handler submits: a non-empty
\* string, or a boolean
SuppliedNonEmpty(args) ==
  {n \in {"name", "desc", "closed", "idList"} :
     CASE n = "name" -> args.name.def /\ args.name.s # <<>>
       [] n = "desc" -> args.desc.def /\ args.desc.s # <<>>
       [] n = "closed" -> args.closed.def
       [] n = "idList" -> args.listId.def /\ args.listId.s # <<>>}

\* C11 as stated: the body of the PUT of update card holds a field exactly
\* when the caller supplied it, empty strings and closed = false included.
C11_BodyIffSupplied ==
  \A p \in Procs :
     \A i \in 1..Len(inv[p].requests) :
        inv[p].op = "update" =>
          BodyNames(inv[p].requests[i]) = Supplied(inv[p].args)

\* C11 amended: the body of the PUT of update card holds closed exactly
\* when the caller supplied it (true or false), and holds name, description
\* and owning list exactly when the caller supplied a non-empty string; a
\* field supplied as the empty string is not submitted.  Each field
\* submitted carries the supplied value.
C11_BodyIffSuppliedNonEmpty ==
  \A p \in Procs :
     \A i \in 1..Len(inv[p].requests) :
        inv[p].op = "update" =>
          LET req == inv[p].requests[i]
              args == inv[p].args
          IN /\ req.method = <<"PUT">> /\ req.hasBody
             /\ BodyNames(req) = SuppliedNonEmpty(args)
             /\ "name" \in BodyNames(req) =>
                  BodyHas(req, "name", JStr(args.name.s))
             /\ "desc" \in BodyNames(req) =>
                  BodyHas(req, "desc", JStr(args.desc.s))
             /\ "closed" \in BodyNames(req) =>
                  BodyHas(req, "closed", JBool(args.closed.b))
             /\ "idList" \in BodyNames(req) =>
                  BodyHas(req, "idList", JStr(args.listId.s))

\* update card in flight with closed = false and an empty name supplied:
\* the body is { closed: false }
C11_Witness ==
  \E p \in Procs :
     /\ inv[p].pc = "fetching" /\ inv[p].op = "update"
     /\ inv[p].args.closed = [def |-> TRUE, b |-> FALSE]
     /\ inv[p].args.name = Str(<<>>)
     /\ ~inv[p].args.desc.def /\ ~inv[p].args.listId.def
     /\ inv[p].requests[1].body = <<Prop("closed", JBool(FALSE))>>

----------------------------------------------------------------------------
(* C12 *)

Marker == <<"...">>

\* list cards completed on a parsed, non-empty array of cards
ListedCards(p) ==
  /\ Done(p) /\ inv[p].op = "list"
  /\ inv[p].response.kind = "http" /\ ResponseOk(inv[p].response)
  /\ inv[p].response.parses /\ inv[p].response.json.t = "array"
  /\ Len(inv[p].response.json.items) > 0

\* C12: in the text list cards hands over, a description longer than 100
\* characters appears as exactly its first 100 characters followed by the
\* truncation marker (its 101st character does not appear), and a
\* description of 100 characters or fewer appears whole with no marker
\* after it (no marker at all when the card is the only one listed).
C12_DescriptionTruncation ==
  \A p \in Procs :
     ListedCards(p) =>
       \E text \in Texts(p) :
          \A i \in 1..Len(inv[p].response.json.items) :
             LET desc == inv[p].response.json.items[i].desc
             IN IF Len(desc) > 100
                THEN /\ Contains(text, <<"\n   ">> \o SubSeq(desc, 1, 100)
                                       \o Marker)
                     /\ ~Contains(text, SubSeq(desc, 1, 101))
                ELSE /\ desc # <<>> =>
                          /\ Contains(text, <<"\n   ">> \o desc)
                          /\ ~Contains(text, desc \o Marker)
                     /\ Len(inv[p].response.json.items) = 1 =>
                          ~Contains(text, Marker)

\* list cards has listed the card of exactly 100 characters followed by
\* the card of 101
C12_Witness ==
  \E p \in Procs :
     /\ ListedCards(p)
     /\ inv[p].response.json.items = <<Card3, Card4>>
     /\ \E text \in Texts(p) :
          /\ Contains(text, Chars("x", 100) \o <<"\n\n">>)
          /\ Contains(text, Chars("y", 100) \o Marker)

----------------------------------------------------------------------------
(* C13 *)

\* what invocation p holds is what its handler yields when run on its own
\* arguments, the configuration and the response to its own request
OwnResult(p) ==
  LET cur == inv[p]
      s == Start(variant, cur.op, cur.args, env)
  IN CASE cur.pc = "idle" -> cur = Idle
       [] cur.pc = "fetching" ->
            s.kind = "await" /\ cur.requests = <<s.req>>
       [] cur.pc = "done" ->
            /\ ~cur.escaped
            /\ IF s.kind = "await"
               THEN LET r == Resume(variant, cur.op, cur.args, s.locals,
                                    cur.response)
                    IN /\ cur.requests = <<s.req>>
                       /\ cur.ret = r.ret /\ cur.logs = r.logs
               ELSE /\ cur.requests = <<>>
                    /\ cur.ret = s.ret /\ cur.logs = s.logs

----------------------------------------------------------------------------
(* C14 *)

\* C14: in add card the configuration check comes first: with a required
\* field missing and no list id resolvable the invocation ends with the
\* configuration error, not the missing-list warning.  A missing default
\* list alone gives no configuration error in any operation, and only add
\* card looks at it: every other operation but setup help goes on to its
\* request, and none of them gives the missing-list warning.
C14_ConfigBeforeTargetList ==
  \A p \in Procs :
     /\ (/\ Done(p) /\ inv[p].op = "add" /\ ~ConfigComplete
         /\ ~Truthy(inv[p].args.listId)
         /\ ~Truthy(env["TRELLO_DEFAULT_LIST_ID"])) =>
           ConfigErrorResult(p) /\ ~WarningResult(p)
     /\ (/\ Called(p) /\ ConfigComplete
         /\ ~Truthy(env["TRELLO_DEFAULT_LIST_ID"])) =>
           /\ \A text \in Texts(p) : ~Contains(text, ConfigMessage)
           /\ inv[p].op # "add" => ~WarningResult(p)
           /\ inv[p].op \notin {"add", "setup"} => Len(inv[p].requests) = 1

\* add card ended with the configuration error: the api key is missing
\* and neither a list id nor a default list is there
C14_Witness ==
  \E p \in Procs :
     /\ Done(p) /\ inv[p].op = "add"
     /\ ~Truthy(env["TRELLO_API_KEY"])
     /\ Truthy(env["TRELLO_API_TOKEN"]) /\ Truthy(env["TRELLO_BOARD_ID"])
     /\ ~inv[p].args.listId.def /\ ~env["TRELLO_DEFAULT_LIST_ID"].def
     /\ ConfigErrorResult(p) /\ inv[p].requests = <<>>

----------------------------------------------------------------------------
(* C15 *)

Mutating == {"add", "update", "delete", "done"}

SuccessHeads ==
  {"[ok] Created card: ", "[ok] Created card:\n", "[ok] Updated card ",
   "[bin] Permanently deleted card: ", "[ok] Marked card as done: "}

\* p told the host that the operation succeeded
ReportsSuccess(p) ==
  /\ Done(p)
  /\ \/ inv[p].ret.def /\ inv[p].ret.s # <<>>
        /\ inv[p].ret.s[1] \in SuccessHeads
     \/ \E i \in 1..Len(inv[p].logs) : inv[p].logs[i].level = "success"

\* the request of p was answered with a success status (the remote service
\* has applied the mutation) and a body that is not JSON
AppliedButUnparseable(p) ==
  /\ Done(p) /\ inv[p].op \in Mutating
  /\ inv[p].response.kind = "http" /\ ResponseOk(inv[p].response)
  /\ ~inv[p].response.parses

\* C15: add, update, delete and mark done report success only after their
\* one request was answered with a success status and a body that parsed
\* as JSON; when the status is success and the body does not parse, the
\* invocation ends with the failure line carrying the parse error, reports
\* no success, and has issued that one request and no other.
C15_SuccessNeedsParsedBody ==
  \A p \in Procs :
     /\ (inv[p].op \in Mutating /\ ReportsSuccess(p)) =>
          /\ Len(inv[p].requests) = 1
          /\ inv[p].response.kind = "http" /\ ResponseOk(inv[p].response)
          /\ inv[p].response.parses
     /\ AppliedButUnparseable(p) =>
          /\ Texts(p) = {FailurePrefix(inv[p].op) \o SyntaxError}
          /\ ~ReportsSuccess(p)
          /\ Len(inv[p].requests) = 1

\* mark done, logging variant: answered 200 with a body that is not JSON
C15_Witness ==
  \E p \in Procs :
     /\ AppliedButUnparseable(p) /\ inv[p].op = "done"
     /\ variant = "logging"
     /\ inv[p].requests[1].method = <<"PUT">>
     /\ inv[p].logs =
          <<Log("error", <<"[X] Failed to mark card as done: ">>
                         \o SyntaxError)>>

====
